---- MODULE Spec2Model ----
(***************************************************************************)
(* SecureCheck police-post ledger (src/app.py): one SQLite table of stop   *)
(* records, a Streamlit page script that is re-run top to bottom on every  *)
(* interaction, and a catalog of aggregate reports.                        *)
(*                                                                         *)
(* A page run is modelled as the sequence of store operations the script   *)
(* performs (one action per operation, ordered by pc); every store         *)
(* operation may raise a store error.  Columns that are written once and   *)
(* never read by any modelled statement (stop_datetime, driver_gender,     *)
(* driver_age, driver_race, stop_duration, stop_outcome) are left out of   *)
(* the row records.  Text that the code inspects character by character    *)
(* (the vehicle number) is a sequence of one-character strings.            *)
(***************************************************************************)
EXTENDS Integers, Sequences, FiniteSets, TLC

VARIABLES tableExists, rows, sqlite_sequence, epoch, issued,
          pc, role, inp, msgs, aborted, faulted, ops, startEmpty, rendered,
          conns, arrest_count, rowid, df_hist, df_results, snap,
          query_to_run, params

store == <<tableExists, rows, sqlite_sequence, epoch, issued>>
run   == <<pc, role, inp, msgs, aborted, faulted, ops, startEmpty, rendered,
          conns>>
outs  == <<arrest_count, rowid, df_hist, df_results, snap, query_to_run, params>>
vars  == <<tableExists, rows, sqlite_sequence, epoch, issued,
           pc, role, inp, msgs, aborted, faulted, ops, startEmpty, rendered,
           conns, arrest_count, rowid, df_hist, df_results, snap,
           query_to_run, params>>

----------------------------------------------------------------------------
(* Bounds *)

MaxInserts == 2
MaxRecreates == 1

(* Program constants *)

MinVehicleLen == 4
DrugRateMinGroup == 50
ArrestRateMinGroup == 10
ViolationMinGroup == 10
TopVehiclesLimit == 10
DrugRateLimit == 10
ArrestRateLimit == 50

Sessions == {"A", "B"}
Writer == "A"

NULL == -1
NoText == <<>>

----------------------------------------------------------------------------
(* Text helpers: str.upper() and str.strip() on sequences of characters *)

Upper(c) ==
    CASE c = "a" -> "A" [] c = "b" -> "B" [] c = "h" -> "H" [] c = "j" -> "J"
      [] c = "m" -> "M" [] c = "r" -> "R" [] c = "x" -> "X"
      [] OTHER -> c

UpperStr(t) == [i \in 1..Len(t) |-> Upper(t[i])]

IsSpace(c) == c = " "

RECURSIVE LStrip(_)
LStrip(t) == IF t # <<>> /\ IsSpace(Head(t)) THEN LStrip(Tail(t)) ELSE t

RECURSIVE RStrip(_)
RStrip(t) ==
    IF t # <<>> /\ IsSpace(t[Len(t)]) THEN RStrip(SubSeq(t, 1, Len(t) - 1)) ELSE t

Strip(t) == RStrip(LStrip(t))

Normalize(t) == Strip(UpperStr(t))

ValidLen3(v) == ~(v = NoText \/ Len(v) < 3)

ValidVehicle(v) == ~(v = NoText \/ Len(v) < MinVehicleLen)

----------------------------------------------------------------------------
(* The table: AUTOINCREMENT insert, as SQLite performs it *)

Max(a, b) == IF a >= b THEN a ELSE b

MaxRowid(rs) ==
    IF rs = <<>> THEN 0
    ELSE CHOOSE m \in {rs[i].stop_id : i \in DOMAIN rs} :
            \A i \in DOMAIN rs : rs[i].stop_id <= m

NextRowidStuck(rs, sq) == Max(1, Max(sq, MaxRowid(rs)))

NextRowid(rs, sq) == Max(sq, MaxRowid(rs)) + 1

MkRow(id, v) ==
    [stop_id |-> id, country_name |-> v.country_name,
     vehicle_number |-> v.vehicle_number, violation |-> v.violation,
     search_conducted |-> v.search_conducted, search_type |-> v.search_type,
     is_arrested |-> v.is_arrested, drugs_related_stop |-> v.drugs_related_stop]

SqlInsert(rs, sq, v) ==
    LET id == NextRowid(rs, sq)
    IN  [rows |-> Append(rs, MkRow(id, v)), seq |-> id, lastrowid |-> id]

(* A bulk load into the fresh table: one AUTOINCREMENT insert per record *)
LoadAll(vs) ==
    [rows |-> [k \in DOMAIN vs |-> MkRow(k, vs[k])], seq |-> Len(vs)]

----------------------------------------------------------------------------
(* Queries of the page script *)

(* SUM(CASE WHEN f = 1 THEN 1 ELSE 0 END) over at least one row *)
SumCase(rs, f) == Len(SelectSeq(rs, LAMBDA r : r[f] = 1))

SumOrNull(rs, f) == IF rs = <<>> THEN NULL ELSE SumCase(rs, f)

load_kpis(rs) ==
    [total_stops |-> Len(rs),
     total_arrests |-> SumOrNull(rs, "is_arrested"),
     total_drug_stops |-> SumOrNull(rs, "drugs_related_stop")]

KpiRowRenders(k) == k.total_arrests # NULL /\ (k.total_stops > 0 => k.total_drug_stops # NULL)

IsAnyPrior(r, v) == r.vehicle_number = v

IsPriorArrest(r, v) == r.vehicle_number = v /\ r.is_arrested = 1

flag_query_any_vehicle(rs, v) == Len(SelectSeq(rs, LAMBDA r : r.is_arrested = 1))

flag_query(rs, v) == Len(SelectSeq(rs, LAMBDA r : IsPriorArrest(r, v)))

lookup_query(rs, v) == SelectSeq(rs, LAMBDA r : r.vehicle_number = v)

ForcedSearchTypeKeep(sc, st) == st

ForcedSearchType(sc, st) == IF sc = 0 THEN "No Search" ELSE st

new_log(i) ==
    [country_name |-> i.country_name, vehicle_number |-> Normalize(i.vehicle),
     violation |-> i.violation, search_conducted |-> i.search_conducted,
     search_type |-> ForcedSearchType(i.search_conducted, i.search_type),
     is_arrested |-> i.is_arrested, drugs_related_stop |-> i.drugs_related_stop]

----------------------------------------------------------------------------
(* Report catalog (SQL_QUERIES) and its evaluation.  A REAL percentage     *)
(* sum * 100.0 / count is kept as the exact fraction [num, den].           *)

TopVehicles == "Top 10 vehicles in drug-related stops"
DrugRate == "Countries with highest drug-related stop rate"
ArrestRate == "Arrest rate by country and violation"
ViolationAssoc == "Violations most associated with searches or arrests"

ReportNames == {TopVehicles, DrugRate, ArrestRate, ViolationAssoc}

(* The catalog's query texts, lines 91-344, as their lexical tokens (white  *)
(* space dropped).  No identifier of the catalog has "country_name",       *)
(* "WHERE", "GROUP" or "BY" as a proper part, and every "GROUP BY" is      *)
(* written with one space, so Python's substring tests and replacements    *)
(* on the text are the same tests and replacements on the tokens.          *)
CatalogNames ==
    { "Top 10 vehicles in drug-related stops",
      "Most frequently searched vehicles (Top 20)",
      "Driver age group with highest arrest rate",
      "Gender distribution by country",
      "Race+Gender combination with highest search rate",
      "Stops by hour of day",
      "Average stop duration for each violation (minutes)",
      "Are night stops more likely to lead to arrests?",
      "Violations most associated with searches or arrests",
      "Violations common among drivers <25",
      "Violations that rarely result in search or arrest",
      "Countries with highest drug-related stop rate",
      "Arrest rate by country and violation",
      "Country with most searches conducted",
      "Yearly breakdown of stops and arrests by country",
      "Driver violation trends by age & race",
      "Stops by year, month, hour",
      "Violations with high search & arrest rates (ranked)",
      "Driver demographics by country",
      "Top 5 violations with highest arrest rates" }

QueryText(name) ==
    CASE name = "Top 10 vehicles in drug-related stops" ->
           <<
              "SELECT", "vehicle_number", ",", "COUNT", "(", "*", ")", "AS",
              "drug_stop_count", "FROM", "police_stop_logs", "WHERE",
              "drugs_related_stop", "=", "1", "GROUP", "BY", "vehicle_number",
              "ORDER", "BY", "drug_stop_count", "DESC", "LIMIT", "10", ";" >>
      [] name = "Most frequently searched vehicles (Top 20)" ->
           <<
              "SELECT", "vehicle_number", ",", "COUNT", "(", "*", ")", "AS",
              "search_count", "FROM", "police_stop_logs", "WHERE",
              "search_conducted", "=", "1", "GROUP", "BY", "vehicle_number",
              "ORDER", "BY", "search_count", "DESC", "LIMIT", "20", ";" >>
      [] name = "Driver age group with highest arrest rate" ->
           <<
              "WITH", "age_buckets", "AS", "(", "SELECT", "CASE", "WHEN",
              "driver_age", "<", "18", "THEN", "'<18'", "WHEN", "driver_age",
              "BETWEEN", "18", "AND", "24", "THEN", "'18-24'", "WHEN",
              "driver_age", "BETWEEN", "25", "AND", "34", "THEN", "'25-34'",
              "WHEN", "driver_age", "BETWEEN", "35", "AND", "44", "THEN",
              "'35-44'", "WHEN", "driver_age", "BETWEEN", "45", "AND", "54",
              "THEN", "'45-54'", "WHEN", "driver_age", ">=", "55", "THEN",
              "'55+'", "ELSE", "'Unknown'", "END", "AS", "age_group", ",",
              "is_arrested", "FROM", "police_stop_logs", ")", "SELECT",
              "age_group", ",", "COUNT", "(", "*", ")", "AS", "total_stops",
              ",", "SUM", "(", "CASE", "WHEN", "is_arrested", "=", "1", "THEN",
              "1", "ELSE", "0", "END", ")", "AS", "arrests", ",", "CAST", "(",
              "SUM", "(", "CASE", "WHEN", "is_arrested", "=", "1", "THEN", "1",
              "ELSE", "0", "END", ")", "AS", "REAL", ")", "*", "100.0", "/",
              "COUNT", "(", "*", ")", "AS", "arrest_rate_pct", "FROM",
              "age_buckets", "GROUP", "BY", "age_group", "ORDER", "BY",
              "arrest_rate_pct", "DESC", ";" >>
      [] name = "Gender distribution by country" ->
           <<
              "SELECT", "country_name", ",", "driver_gender", ",", "COUNT", "(",
              "*", ")", "AS", "stops", "FROM", "police_stop_logs", "GROUP",
              "BY", "country_name", ",", "driver_gender", "ORDER", "BY",
              "country_name", ",", "stops", "DESC", ";" >>
      [] name = "Race+Gender combination with highest search rate" ->
           <<
              "SELECT", "driver_race", ",", "driver_gender", ",", "COUNT", "(",
              "*", ")", "AS", "total_stops", ",", "SUM", "(", "CASE", "WHEN",
              "search_conducted", "=", "1", "THEN", "1", "ELSE", "0", "END",
              ")", "AS", "searches", ",", "CAST", "(", "SUM", "(", "CASE",
              "WHEN", "search_conducted", "=", "1", "THEN", "1", "ELSE", "0",
              "END", ")", "AS", "REAL", ")", "*", "100.0", "/", "COUNT", "(",
              "*", ")", "AS", "search_rate_pct", "FROM", "police_stop_logs",
              "GROUP", "BY", "driver_race", ",", "driver_gender", "HAVING",
              "COUNT", "(", "*", ")", ">=", "20", "ORDER", "BY",
              "search_rate_pct", "DESC", "LIMIT", "10", ";" >>
      [] name = "Stops by hour of day" ->
           <<
              "SELECT", "CAST", "(", "strftime", "(", "'%H'", ",",
              "stop_datetime", ")", "AS", "INTEGER", ")", "AS", "hour_of_day",
              ",", "COUNT", "(", "*", ")", "AS", "stops", "FROM",
              "police_stop_logs", "WHERE", "stop_datetime", "IS", "NOT", "NULL",
              "GROUP", "BY", "hour_of_day", "ORDER", "BY", "stops", "DESC", ";" >>
      [] name = "Average stop duration for each violation (minutes)" ->
           <<
              "WITH", "mapped", "AS", "(", "SELECT", "violation", ",", "CASE",
              "stop_duration", "WHEN", "'0-15 Min'", "THEN", "7.5", "WHEN",
              "'16-30 Min'", "THEN", "23.0", "WHEN", "'>30 Min'", "THEN",
              "45.0", "ELSE", "NULL", "END", "AS", "duration_minutes", "FROM",
              "police_stop_logs", ")", "SELECT", "violation", ",", "COUNT", "(",
              "duration_minutes", ")", "AS", "n_samples", ",", "AVG", "(",
              "duration_minutes", ")", "AS", "avg_duration_minutes", "FROM",
              "mapped", "GROUP", "BY", "violation", "ORDER", "BY",
              "avg_duration_minutes", "DESC", ";" >>
      [] name = "Are night stops more likely to lead to arrests?" ->
           <<
              "WITH", "flagged", "AS", "(", "SELECT", "*", ",", "CAST", "(",
              "strftime", "(", "'%H'", ",", "stop_datetime", ")", "AS",
              "INTEGER", ")", "AS", "hour", "FROM", "police_stop_logs", ")",
              "SELECT", "CASE", "WHEN", "hour", ">=", "20", "OR", "hour", "<=",
              "4", "THEN", "'night'", "ELSE", "'day'", "END", "AS", "period",
              ",", "COUNT", "(", "*", ")", "AS", "total_stops", ",", "SUM", "(",
              "CASE", "WHEN", "is_arrested", "=", "1", "THEN", "1", "ELSE", "0",
              "END", ")", "AS", "arrests", ",", "CAST", "(", "SUM", "(", "CASE",
              "WHEN", "is_arrested", "=", "1", "THEN", "1", "ELSE", "0", "END",
              ")", "AS", "REAL", ")", "*", "100.0", "/", "COUNT", "(", "*", ")",
              "AS", "arrest_rate_pct", "FROM", "flagged", "GROUP", "BY",
              "period", "ORDER", "BY", "arrest_rate_pct", "DESC", ";" >>
      [] name = "Violations most associated with searches or arrests" ->
           <<
              "SELECT", "violation", ",", "COUNT", "(", "*", ")", "AS",
              "total_stops", ",", "SUM", "(", "CASE", "WHEN",
              "search_conducted", "=", "1", "THEN", "1", "ELSE", "0", "END",
              ")", "AS", "searches", ",", "SUM", "(", "CASE", "WHEN",
              "is_arrested", "=", "1", "THEN", "1", "ELSE", "0", "END", ")",
              "AS", "arrests", ",", "CAST", "(", "SUM", "(", "CASE", "WHEN",
              "search_conducted", "=", "1", "THEN", "1", "ELSE", "0", "END",
              ")", "AS", "REAL", ")", "*", "100.0", "/", "COUNT", "(", "*", ")",
              "AS", "search_rate_pct", ",", "CAST", "(", "SUM", "(", "CASE",
              "WHEN", "is_arrested", "=", "1", "THEN", "1", "ELSE", "0", "END",
              ")", "AS", "REAL", ")", "*", "100.0", "/", "COUNT", "(", "*", ")",
              "AS", "arrest_rate_pct", "FROM", "police_stop_logs", "GROUP",
              "BY", "violation", "HAVING", "COUNT", "(", "*", ")", ">", "10",
              "ORDER", "BY", "arrest_rate_pct", "DESC", ",", "search_rate_pct",
              "DESC", ";" >>
      [] name = "Violations common among drivers <25" ->
           <<
              "SELECT", "violation", ",", "COUNT", "(", "*", ")", "AS",
              "stops_under25", ",", "CAST", "(", "COUNT", "(", "*", ")", "AS",
              "REAL", ")", "/", "(", "SELECT", "COUNT", "(", "*", ")", "FROM",
              "police_stop_logs", "WHERE", "driver_age", "<", "25", ")", "*",
              "100.0", "AS", "pct_of_under25_stops", "FROM", "police_stop_logs",
              "WHERE", "driver_age", "<", "25", "GROUP", "BY", "violation",
              "ORDER", "BY", "stops_under25", "DESC", "LIMIT", "20", ";" >>
      [] name = "Violations that rarely result in search or arrest" ->
           <<
              "SELECT", "violation", ",", "COUNT", "(", "*", ")", "AS",
              "total_stops", ",", "CAST", "(", "SUM", "(", "CASE", "WHEN",
              "search_conducted", "=", "1", "THEN", "1", "ELSE", "0", "END",
              ")", "AS", "REAL", ")", "*", "100.0", "/", "COUNT", "(", "*", ")",
              "AS", "search_rate_pct", ",", "CAST", "(", "SUM", "(", "CASE",
              "WHEN", "is_arrested", "=", "1", "THEN", "1", "ELSE", "0", "END",
              ")", "AS", "REAL", ")", "*", "100.0", "/", "COUNT", "(", "*", ")",
              "AS", "arrest_rate_pct", "FROM", "police_stop_logs", "GROUP",
              "BY", "violation", "HAVING", "COUNT", "(", "*", ")", ">", "50",
              "ORDER", "BY", "(", "search_rate_pct", "+", "arrest_rate_pct",
              ")", "ASC", "LIMIT", "10", ";" >>
      [] name = "Countries with highest drug-related stop rate" ->
           <<
              "SELECT", "country_name", ",", "COUNT", "(", "*", ")", "AS",
              "total_stops", ",", "SUM", "(", "CASE", "WHEN",
              "drugs_related_stop", "=", "1", "THEN", "1", "ELSE", "0", "END",
              ")", "AS", "drug_stops", ",", "CAST", "(", "SUM", "(", "CASE",
              "WHEN", "drugs_related_stop", "=", "1", "THEN", "1", "ELSE", "0",
              "END", ")", "AS", "REAL", ")", "*", "100.0", "/", "COUNT", "(",
              "*", ")", "AS", "drug_rate_pct", "FROM", "police_stop_logs",
              "GROUP", "BY", "country_name", "HAVING", "COUNT", "(", "*", ")",
              ">", "50", "ORDER", "BY", "drug_rate_pct", "DESC", "LIMIT", "10",
              ";" >>
      [] name = "Arrest rate by country and violation" ->
           <<
              "SELECT", "country_name", ",", "violation", ",", "COUNT", "(",
              "*", ")", "AS", "total_stops", ",", "SUM", "(", "CASE", "WHEN",
              "is_arrested", "=", "1", "THEN", "1", "ELSE", "0", "END", ")",
              "AS", "arrests", ",", "CAST", "(", "SUM", "(", "CASE", "WHEN",
              "is_arrested", "=", "1", "THEN", "1", "ELSE", "0", "END", ")",
              "AS", "REAL", ")", "*", "100.0", "/", "COUNT", "(", "*", ")",
              "AS", "arrest_rate_pct", "FROM", "police_stop_logs", "GROUP",
              "BY", "country_name", ",", "violation", "HAVING", "COUNT", "(",
              "*", ")", ">=", "10", "ORDER", "BY", "arrest_rate_pct", "DESC",
              "LIMIT", "50", ";" >>
      [] name = "Country with most searches conducted" ->
           <<
              "SELECT", "country_name", ",", "SUM", "(", "CASE", "WHEN",
              "search_conducted", "=", "1", "THEN", "1", "ELSE", "0", "END",
              ")", "AS", "searches", ",", "COUNT", "(", "*", ")", "AS",
              "total_stops", ",", "CAST", "(", "SUM", "(", "CASE", "WHEN",
              "search_conducted", "=", "1", "THEN", "1", "ELSE", "0", "END",
              ")", "AS", "REAL", ")", "*", "100.0", "/", "COUNT", "(", "*", ")",
              "AS", "search_rate_pct", "FROM", "police_stop_logs", "GROUP",
              "BY", "country_name", "ORDER", "BY", "searches", "DESC", "LIMIT",
              "10", ";" >>
      [] name = "Yearly breakdown of stops and arrests by country" ->
           <<
              "WITH", "parsed", "AS", "(", "SELECT", "country_name", ",",
              "CAST", "(", "strftime", "(", "'%Y'", ",", "stop_datetime", ")",
              "AS", "INTEGER", ")", "AS", "year", ",", "is_arrested", "FROM",
              "police_stop_logs", ")", "SELECT", "country_name", ",", "year",
              ",", "COUNT", "(", "*", ")", "AS", "stops", ",", "SUM", "(",
              "CASE", "WHEN", "is_arrested", "=", "1", "THEN", "1", "ELSE", "0",
              "END", ")", "AS", "arrests", ",", "CAST", "(", "SUM", "(", "CASE",
              "WHEN", "is_arrested", "=", "1", "THEN", "1", "ELSE", "0", "END",
              ")", "AS", "REAL", ")", "*", "100.0", "/", "COUNT", "(", "*", ")",
              "AS", "arrest_rate_pct", ",", "SUM", "(", "COUNT", "(", "*", ")",
              ")", "OVER", "(", "PARTITION", "BY", "country_name", "ORDER",
              "BY", "year", "ROWS", "BETWEEN", "UNBOUNDED", "PRECEDING", "AND",
              "CURRENT", "ROW", ")", "AS", "running_stops", "FROM", "parsed",
              "GROUP", "BY", "country_name", ",", "year", "ORDER", "BY",
              "country_name", ",", "year", ";" >>
      [] name = "Driver violation trends by age & race" ->
           <<
              "WITH", "age_grouped", "AS", "(", "SELECT", "*", ",", "CASE",
              "WHEN", "driver_age", "<", "18", "THEN", "'<18'", "WHEN",
              "driver_age", "BETWEEN", "18", "AND", "24", "THEN", "'18-24'",
              "WHEN", "driver_age", "BETWEEN", "25", "AND", "34", "THEN",
              "'25-34'", "WHEN", "driver_age", "BETWEEN", "35", "AND", "44",
              "THEN", "'35-44'", "WHEN", "driver_age", "BETWEEN", "45", "AND",
              "54", "THEN", "'45-54'", "WHEN", "driver_age", ">=", "55", "THEN",
              "'55+'", "ELSE", "'Unknown'", "END", "AS", "age_group", "FROM",
              "police_stop_logs", ")", "SELECT", "age_group", ",",
              "driver_race", ",", "violation", ",", "COUNT", "(", "*", ")",
              "AS", "stops", ",", "CAST", "(", "COUNT", "(", "*", ")", "AS",
              "REAL", ")", "*", "100.0", "/", "(", "SELECT", "COUNT", "(", "*",
              ")", "FROM", "police_stop_logs", "WHERE", "driver_age", "IS",
              "NOT", "NULL", "AND", "driver_age", ">=", "0", ")", "AS",
              "pct_of_all_stops", "FROM", "age_grouped", "GROUP", "BY",
              "age_group", ",", "driver_race", ",", "violation", "ORDER", "BY",
              "age_group", ",", "stops", "DESC", "LIMIT", "200", ";" >>
      [] name = "Stops by year, month, hour" ->
           <<
              "SELECT", "CAST", "(", "strftime", "(", "'%Y'", ",",
              "stop_datetime", ")", "AS", "INTEGER", ")", "AS", "year", ",",
              "CAST", "(", "strftime", "(", "'%m'", ",", "stop_datetime", ")",
              "AS", "INTEGER", ")", "AS", "month", ",", "CAST", "(", "strftime",
              "(", "'%H'", ",", "stop_datetime", ")", "AS", "INTEGER", ")",
              "AS", "hour", ",", "COUNT", "(", "*", ")", "AS", "stops", "FROM",
              "police_stop_logs", "GROUP", "BY", "year", ",", "month", ",",
              "hour", "ORDER", "BY", "year", "DESC", ",", "month", "DESC", ",",
              "hour", ";" >>
      [] name = "Violations with high search & arrest rates (ranked)" ->
           <<
              "WITH", "stats", "AS", "(", "SELECT", "violation", ",", "COUNT",
              "(", "*", ")", "AS", "total", ",", "SUM", "(", "CASE", "WHEN",
              "search_conducted", "=", "1", "THEN", "1", "ELSE", "0", "END",
              ")", "AS", "searches", ",", "SUM", "(", "CASE", "WHEN",
              "is_arrested", "=", "1", "THEN", "1", "ELSE", "0", "END", ")",
              "AS", "arrests", ",", "CAST", "(", "SUM", "(", "CASE", "WHEN",
              "search_conducted", "=", "1", "THEN", "1", "ELSE", "0", "END",
              ")", "AS", "REAL", ")", "*", "100.0", "/", "COUNT", "(", "*", ")",
              "AS", "search_rate_pct", ",", "CAST", "(", "SUM", "(", "CASE",
              "WHEN", "is_arrested", "=", "1", "THEN", "1", "ELSE", "0", "END",
              ")", "AS", "REAL", ")", "*", "100.0", "/", "COUNT", "(", "*", ")",
              "AS", "arrest_rate_pct", "FROM", "police_stop_logs", "GROUP",
              "BY", "violation", "HAVING", "COUNT", "(", "*", ")", ">", "30",
              ")", "SELECT", "*", ",", "RANK", "(", ")", "OVER", "(", "ORDER",
              "BY", "arrest_rate_pct", "DESC", ")", "AS", "rank_by_arrest_rate",
              ",", "RANK", "(", ")", "OVER", "(", "ORDER", "BY",
              "search_rate_pct", "DESC", ")", "AS", "rank_by_search_rate",
              "FROM", "stats", "ORDER", "BY", "rank_by_arrest_rate", ",",
              "rank_by_search_rate", "LIMIT", "30", ";" >>
      [] name = "Driver demographics by country" ->
           <<
              "SELECT", "country_name", ",", "driver_gender", ",", "CASE",
              "WHEN", "driver_age", "<", "18", "THEN", "'<18'", "WHEN",
              "driver_age", "BETWEEN", "18", "AND", "24", "THEN", "'18-24'",
              "WHEN", "driver_age", "BETWEEN", "25", "AND", "34", "THEN",
              "'25-34'", "WHEN", "driver_age", "BETWEEN", "35", "AND", "44",
              "THEN", "'35-44'", "WHEN", "driver_age", "BETWEEN", "45", "AND",
              "54", "THEN", "'45-54'", "WHEN", "driver_age", ">=", "55", "THEN",
              "'55+'", "ELSE", "'Unknown'", "END", "AS", "age_group", ",",
              "driver_race", ",", "COUNT", "(", "*", ")", "AS", "stops", "FROM",
              "police_stop_logs", "GROUP", "BY", "country_name", ",",
              "driver_gender", ",", "age_group", ",", "driver_race", "ORDER",
              "BY", "country_name", ",", "stops", "DESC", "LIMIT", "500", ";" >>
      [] name = "Top 5 violations with highest arrest rates" ->
           <<
              "SELECT", "violation", ",", "COUNT", "(", "*", ")", "AS",
              "total_stops", ",", "SUM", "(", "CASE", "WHEN", "is_arrested",
              "=", "1", "THEN", "1", "ELSE", "0", "END", ")", "AS", "arrests",
              ",", "CAST", "(", "SUM", "(", "CASE", "WHEN", "is_arrested", "=",
              "1", "THEN", "1", "ELSE", "0", "END", ")", "AS", "REAL", ")", "*",
              "100.0", "/", "COUNT", "(", "*", ")", "AS", "arrest_rate_pct",
              "FROM", "police_stop_logs", "GROUP", "BY", "violation", "HAVING",
              "COUNT", "(", "*", ")", ">=", "30", "ORDER", "BY",
              "arrest_rate_pct", "DESC", "LIMIT", "5", ";" >>

UpperToken(t) ==
    CASE t = "'%m'" -> "'%M'"
      [] t = "'0-15 Min'" -> "'0-15 MIN'"
      [] t = "'16-30 Min'" -> "'16-30 MIN'"
      [] t = "'>30 Min'" -> "'>30 MIN'"
      [] t = "'Unknown'" -> "'UNKNOWN'"
      [] t = "'day'" -> "'DAY'"
      [] t = "'night'" -> "'NIGHT'"
      [] t = "age_buckets" -> "AGE_BUCKETS"
      [] t = "age_group" -> "AGE_GROUP"
      [] t = "age_grouped" -> "AGE_GROUPED"
      [] t = "arrest_rate_pct" -> "ARREST_RATE_PCT"
      [] t = "arrests" -> "ARRESTS"
      [] t = "avg_duration_minutes" -> "AVG_DURATION_MINUTES"
      [] t = "country_name" -> "COUNTRY_NAME"
      [] t = "driver_age" -> "DRIVER_AGE"
      [] t = "driver_gender" -> "DRIVER_GENDER"
      [] t = "driver_race" -> "DRIVER_RACE"
      [] t = "drug_rate_pct" -> "DRUG_RATE_PCT"
      [] t = "drug_stop_count" -> "DRUG_STOP_COUNT"
      [] t = "drug_stops" -> "DRUG_STOPS"
      [] t = "drugs_related_stop" -> "DRUGS_RELATED_STOP"
      [] t = "duration_minutes" -> "DURATION_MINUTES"
      [] t = "flagged" -> "FLAGGED"
      [] t = "hour" -> "HOUR"
      [] t = "hour_of_day" -> "HOUR_OF_DAY"
      [] t = "is_arrested" -> "IS_ARRESTED"
      [] t = "mapped" -> "MAPPED"
      [] t = "month" -> "MONTH"
      [] t = "n_samples" -> "N_SAMPLES"
      [] t = "parsed" -> "PARSED"
      [] t = "pct_of_all_stops" -> "PCT_OF_ALL_STOPS"
      [] t = "pct_of_under25_stops" -> "PCT_OF_UNDER25_STOPS"
      [] t = "period" -> "PERIOD"
      [] t = "police_stop_logs" -> "POLICE_STOP_LOGS"
      [] t = "rank_by_arrest_rate" -> "RANK_BY_ARREST_RATE"
      [] t = "rank_by_search_rate" -> "RANK_BY_SEARCH_RATE"
      [] t = "running_stops" -> "RUNNING_STOPS"
      [] t = "search_conducted" -> "SEARCH_CONDUCTED"
      [] t = "search_count" -> "SEARCH_COUNT"
      [] t = "search_rate_pct" -> "SEARCH_RATE_PCT"
      [] t = "searches" -> "SEARCHES"
      [] t = "stats" -> "STATS"
      [] t = "stop_datetime" -> "STOP_DATETIME"
      [] t = "stop_duration" -> "STOP_DURATION"
      [] t = "stops" -> "STOPS"
      [] t = "stops_under25" -> "STOPS_UNDER25"
      [] t = "strftime" -> "STRFTIME"
      [] t = "total" -> "TOTAL"
      [] t = "total_stops" -> "TOTAL_STOPS"
      [] t = "vehicle_number" -> "VEHICLE_NUMBER"
      [] t = "violation" -> "VIOLATION"
      [] t = "year" -> "YEAR"
      [] OTHER -> t

(* str.find(old): where old first occurs in t, 0 if nowhere *)
Find(t, old) ==
    LET hits == {i \in 1..(Len(t) - Len(old) + 1) :
                    SubSeq(t, i, i + Len(old) - 1) = old}
    IN  IF hits = {} THEN 0 ELSE CHOOSE i \in hits : \A j \in hits : i <= j

(* old in t *)
Contains(t, old) == Find(t, old) # 0

(* str.replace(old, new, 1) *)
Replace1(t, old, new) ==
    LET i == Find(t, old)
    IN  IF i = 0 THEN t
        ELSE SubSeq(t, 1, i - 1) \o new \o SubSeq(t, i + Len(old), Len(t))

(* str.upper() *)
UpperText(t) == [i \in 1..Len(t) |-> UpperToken(t[i])]

(* SQL_QUERIES[selected_query_name] *)
SQL_QUERIES(name) == [name |-> name, text |-> QueryText(name)]

(* lines 496-499: conjoin to the WHERE, or put a WHERE before GROUP BY *)
AddCountryPredicate(text) ==
    IF Contains(UpperText(text), <<"WHERE">>)
    THEN Replace1(text, <<"WHERE">>, <<"WHERE", "country_name", "=", "?", "AND">>)
    ELSE Replace1(text, <<"GROUP", "BY">>,
                  <<"WHERE", "country_name", "=", "?", "GROUP", "BY">>)

InjectFilterEverywhere(q, country_filter) ==
    IF country_filter # ""
    THEN [query |-> q, text |-> AddCountryPredicate(q.text),
          params |-> <<country_filter>>]
    ELSE [query |-> q, text |-> q.text, params |-> <<>>]

InjectFilterUnbound(q, country_filter) ==
    IF Contains(q.text, <<"country_name">>) /\ country_filter # ""
    THEN [query |-> q, text |-> AddCountryPredicate(q.text), params |-> <<>>]
    ELSE [query |-> q, text |-> q.text, params |-> <<>>]

(* lines 493-501: the query to run and its parameters *)
InjectFilter(q, country_filter) ==
    IF Contains(q.text, <<"country_name">>) /\ country_filter # ""
    THEN [query |-> q, text |-> AddCountryPredicate(q.text),
          params |-> <<country_filter>>]
    ELSE [query |-> q, text |-> q.text, params |-> <<>>]

(* What sqlite makes of the text it is handed: the "?" it has to bind,     *)
(* and whether the row filter country_name = ? is part of it.              *)
Placeholders(text) == Cardinality({i \in DOMAIN text : text[i] = "?"})

BindingError(x) == Placeholders(x.text) # Len(x.params)

HasCountryPredicate(x) == Contains(x.text, <<"WHERE", "country_name", "=", "?">>)

PctFloorDiv(sum, count) == [num |-> (sum * 100) \div count, den |-> 1]

Pct(sum, count) == [num |-> sum * 100, den |-> count]

PctGeq(a, b) == a.num * b.den >= b.num * a.den

PctEq(a, b) == a.num * b.den = b.num * a.den

Where(rs, x) ==
    LET afterCountry ==
            IF HasCountryPredicate(x)
            THEN SelectSeq(rs, LAMBDA r : r.country_name = x.params[1])
            ELSE rs
    IN  IF x.query.name = TopVehicles
        THEN SelectSeq(afterCountry, LAMBDA r : r.drugs_related_stop = 1)
        ELSE afterCountry

GroupKey(r, name) ==
    CASE name = TopVehicles -> <<r.vehicle_number>>
      [] name = DrugRate -> <<r.country_name>>
      [] name = ArrestRate -> <<r.country_name, r.violation>>
      [] name = ViolationAssoc -> <<r.violation>>

GroupOf(rs, name, k) == SelectSeq(rs, LAMBDA r : GroupKey(r, name) = k)

Having(name, n) ==
    CASE name = TopVehicles -> TRUE
      [] name = DrugRate -> n > DrugRateMinGroup
      [] name = ArrestRate -> n >= ArrestRateMinGroup
      [] name = ViolationAssoc -> n > ViolationMinGroup

SelectGroup(name, k, g) ==
    CASE name = TopVehicles ->
           [vehicle_number |-> k[1], drug_stop_count |-> Len(g)]
      [] name = DrugRate ->
           [country_name |-> k[1], total_stops |-> Len(g),
            drug_stops |-> SumCase(g, "drugs_related_stop"),
            drug_rate_pct |-> Pct(SumCase(g, "drugs_related_stop"), Len(g))]
      [] name = ArrestRate ->
           [country_name |-> k[1], violation |-> k[2], total_stops |-> Len(g),
            arrests |-> SumCase(g, "is_arrested"),
            arrest_rate_pct |-> Pct(SumCase(g, "is_arrested"), Len(g))]
      [] name = ViolationAssoc ->
           [violation |-> k[1], total_stops |-> Len(g),
            searches |-> SumCase(g, "search_conducted"),
            arrests |-> SumCase(g, "is_arrested"),
            search_rate_pct |-> Pct(SumCase(g, "search_conducted"), Len(g)),
            arrest_rate_pct |-> Pct(SumCase(g, "is_arrested"), Len(g))]

(* ORDER BY: a may precede b *)
OrderedBefore(name, a, b) ==
    CASE name = TopVehicles -> a.drug_stop_count >= b.drug_stop_count
      [] name = DrugRate -> PctGeq(a.drug_rate_pct, b.drug_rate_pct)
      [] name = ArrestRate -> PctGeq(a.arrest_rate_pct, b.arrest_rate_pct)
      [] name = ViolationAssoc ->
           \/ ~PctGeq(b.arrest_rate_pct, a.arrest_rate_pct)
           \/ /\ PctEq(a.arrest_rate_pct, b.arrest_rate_pct)
              /\ PctGeq(a.search_rate_pct, b.search_rate_pct)

Limit(name, n) ==
    CASE name = TopVehicles -> IF n < TopVehiclesLimit THEN n ELSE TopVehiclesLimit
      [] name = DrugRate -> IF n < DrugRateLimit THEN n ELSE DrugRateLimit
      [] name = ArrestRate -> IF n < ArrestRateLimit THEN n ELSE ArrestRateLimit
      [] name = ViolationAssoc -> n

GroupRows(rs, x) ==
    LET name == x.query.name
        w    == Where(rs, x)
        keys == {GroupKey(w[i], name) : i \in DOMAIN w}
    IN  {SelectGroup(name, k, GroupOf(w, name, k)) :
            k \in {kk \in keys : Having(name, Len(GroupOf(w, name, kk)))}}

(* Every result the query may return: rows that compare equal under ORDER  *)
(* BY come in any order, then LIMIT cuts the list.                         *)
RunReport(rs, x) ==
    LET name == x.query.name
        G    == GroupRows(rs, x)
        n    == Cardinality(G)
        ord  == {p \in [1..n -> G] :
                    /\ \A i, j \in 1..n : i # j => p[i] # p[j]
                    /\ \A i, j \in 1..n : i < j => OrderedBefore(name, p[i], p[j])}
    IN  {SubSeq(p, 1, Limit(name, n)) : p \in ord}

----------------------------------------------------------------------------
(* What an operator can enter *)

RawVehicles ==
    { <<"r", "j", "0", "1">>, <<" ", "R", "J", "0", "1", " ">>,
      <<"m", "h", "1", "2", "x">>, <<"a", "b", "1", " ">>,
      <<" ", " ", " ", " ">>, <<>> }

SearchInputs == { <<0, "No Search">>, <<0, "Frisk">>, <<1, "Frisk">> }

NoInput ==
    [action |-> "view", vehicle |-> NoText, search_conducted |-> 0,
     search_type |-> "No Search", is_arrested |-> 0, drugs_related_stop |-> 0,
     country_name |-> "India", violation |-> "Speeding", role |-> "Officer",
     report |-> TopVehicles, country_filter |-> ""]

SubmitInputs ==
    { [NoInput EXCEPT !.action = "submit", !.vehicle = v,
                      !.search_conducted = st[1], !.search_type = st[2],
                      !.is_arrested = a] :
        v \in RawVehicles, st \in SearchInputs, a \in {0, 1} }

LookupInputs ==
    { [NoInput EXCEPT !.action = "lookup", !.vehicle = v] : v \in RawVehicles }

ReportInputs ==
    { [NoInput EXCEPT !.action = "report", !.report = n, !.country_filter = c] :
        n \in ReportNames, c \in {"", "India"} }

SidebarInputs ==
    { [NoInput EXCEPT !.action = "login", !.role = r] : r \in {"Officer", "Admin"} }
    \cup { [NoInput EXCEPT !.action = "logout"] }

Inputs ==
    {NoInput} \cup SidebarInputs \cup SubmitInputs \cup LookupInputs
    \cup ReportInputs \cup { [NoInput EXCEPT !.action = "recreate"] }

(* Rows already in the database file when the page is first opened *)
LoadedRow(v, sc, st, a, d) ==
    [country_name |-> "India", vehicle_number |-> v, violation |-> "Speeding",
     search_conducted |-> sc, search_type |-> st, is_arrested |-> a,
     drugs_related_stop |-> d]

Preloads ==
    { <<>>,
      << LoadedRow(<<"M", "H", "1", "2", "X">>, 0, "", 0, 1) >>,
      << LoadedRow(<<"R", "J", "0", "1">>, 1, "Frisk", 1, 0),
         LoadedRow(<<"R", "J", "0", "1">>, 0, "", 0, 0) >> }

----------------------------------------------------------------------------
(* State *)

FormIssued == Cardinality({k \in DOMAIN issued : issued[k].by = "form"})

InFlight(a) == Cardinality({s \in Sessions : inp[s].action = a})

InitWith(P, withTable) ==
    /\ \E vs \in P :
         LET l == LoadAll(vs)
         IN  /\ rows = l.rows
             /\ sqlite_sequence = l.seq
             /\ tableExists \in (IF vs = <<>> THEN withTable ELSE {TRUE})
             /\ issued = [k \in DOMAIN l.rows |->
                            [id |-> l.rows[k].stop_id, epoch |-> 0, by |-> "load"]]
    /\ epoch = 0
    /\ pc = [s \in Sessions |-> "idle"]
    /\ role = [s \in Sessions |-> "None"]
    /\ inp = [s \in Sessions |-> NoInput]
    /\ msgs = [s \in Sessions |-> {}]
    /\ aborted = [s \in Sessions |-> FALSE]
    /\ faulted = [s \in Sessions |-> FALSE]
    /\ ops = [s \in Sessions |-> {}]
    /\ startEmpty = [s \in Sessions |-> FALSE]
    /\ rendered = [s \in Sessions |-> {}]
    /\ conns = [s \in Sessions |-> 0]
    /\ arrest_count = [s \in Sessions |-> NULL]
    /\ rowid = [s \in Sessions |-> NULL]
    /\ df_hist = [s \in Sessions |-> <<>>]
    /\ df_results = [s \in Sessions |-> <<>>]
    /\ snap = [s \in Sessions |-> <<>>]
    /\ query_to_run = [s \in Sessions |-> <<>>]
    /\ params = [s \in Sessions |-> <<>>]

Init == InitWith(Preloads, {FALSE, TRUE})

Goto(s, l) == pc' = [pc EXCEPT ![s] = l]

Say(s, m) == msgs' = [msgs EXCEPT ![s] = @ \cup m]

Fault(s, f) == faulted' = [faulted EXCEPT ![s] = @ \/ f]

Render(s, w) == rendered' = [rendered EXCEPT ![s] = @ \cup {w}]

(* An exception nobody catches: Streamlit shows it and stops the script *)
Uncaught(s) ==
    /\ Goto(s, "done")
    /\ aborted' = [aborted EXCEPT ![s] = TRUE]
    /\ Say(s, {"Uncaught exception"})

(* Where a store operation fails, if it does: in get_db_connection(), or   *)
(* in a statement after the connection has been opened.                    *)
FailedAt(fault, refused) ==
    IF fault THEN {"connect", "statement"}
    ELSE IF refused THEN {"statement"} ELSE {"none"}

(* run_query, insert_log, get_table_info and the recreate handler close    *)
(* in a finally; init_db (lines 25-48) closes on its last line only.       *)
ClosesInFinally(op) == op \in {"run_query", "insert_log", "get_table_info", "recreate"}

(* Open connections after operation op, n being open before it *)
ConnsAfter(n, op, at) ==
    IF at = "connect" THEN n
    ELSE IF at = "none" \/ ClosesInFinally(op) THEN (n + 1) - 1
    ELSE n + 1

Conn(s, op, fault, refused) ==
    \E n \in {ConnsAfter(conns[s], op, at) : at \in FailedAt(fault, refused)} :
        conns' = [conns EXCEPT ![s] = n]

----------------------------------------------------------------------------
(* A page run, top to bottom *)

Offered(s, i) ==
    CASE i.action = "view" -> TRUE
      [] i.action = "login" -> "sidebar" \in rendered[s] /\ role[s] = "None"
      [] i.action = "logout" -> "sidebar" \in rendered[s] /\ role[s] # "None"
      [] i.action = "submit" ->
           "form" \in rendered[s] /\ FormIssued + InFlight("submit") < MaxInserts
      [] i.action = "lookup" -> "lookup" \in rendered[s]
      [] i.action = "report" -> "report" \in rendered[s]
      [] i.action = "recreate" ->
           "admin" \in rendered[s] /\ epoch + InFlight("recreate") < MaxRecreates

(* An interaction re-runs the script; the sidebar (lines 349-363) runs first *)
StartRun(s, I) ==
    /\ pc[s] = "idle"
    /\ \E i \in I :
         /\ Offered(s, i)
         /\ inp' = [inp EXCEPT ![s] = i]
         /\ role' = [role EXCEPT ![s] =
                        CASE i.action = "login" -> i.role
                          [] i.action = "logout" -> "None"
                          [] OTHER -> @]
    /\ Goto(s, "init_db")
    /\ startEmpty' = [startEmpty EXCEPT ![s] = (rows = <<>>)]
    /\ rendered' = [rendered EXCEPT ![s] = {"sidebar"}]
    /\ UNCHANGED <<store, msgs, aborted, faulted, ops, conns, outs>>

(* The script has ended: its locals are gone (a connection object nobody   *)
(* closed is reclaimed with them), the page waits for the next interaction *)
EndRun(s) ==
    /\ pc[s] = "done"
    /\ Goto(s, "idle")
    /\ inp' = [inp EXCEPT ![s] = NoInput]
    /\ msgs' = [msgs EXCEPT ![s] = {}]
    /\ aborted' = [aborted EXCEPT ![s] = FALSE]
    /\ faulted' = [faulted EXCEPT ![s] = FALSE]
    /\ ops' = [ops EXCEPT ![s] = {}]
    /\ startEmpty' = [startEmpty EXCEPT ![s] = FALSE]
    /\ conns' = [conns EXCEPT ![s] = 0]
    /\ arrest_count' = [arrest_count EXCEPT ![s] = NULL]
    /\ rowid' = [rowid EXCEPT ![s] = NULL]
    /\ df_hist' = [df_hist EXCEPT ![s] = <<>>]
    /\ df_results' = [df_results EXCEPT ![s] = <<>>]
    /\ snap' = [snap EXCEPT ![s] = <<>>]
    /\ query_to_run' = [query_to_run EXCEPT ![s] = <<>>]
    /\ params' = [params EXCEPT ![s] = <<>>]
    /\ UNCHANGED <<store, role, rendered>>

init_db_replacing(exists, rs) == [tableExists |-> TRUE, rows |-> <<>>]

(* CREATE TABLE IF NOT EXISTS *)
init_db(exists, rs) == [tableExists |-> TRUE, rows |-> IF exists THEN rs ELSE <<>>]

(* line 368: not inside any try *)
InitDbStep(s) ==
    /\ pc[s] = "init_db"
    /\ \E fault \in BOOLEAN :
         /\ Fault(s, fault)
         /\ Conn(s, "init_db", fault, FALSE)
         /\ IF fault
            THEN Uncaught(s) /\ UNCHANGED <<tableExists, rows>>
            ELSE /\ tableExists' = init_db(tableExists, rows).tableExists
                 /\ rows' = init_db(tableExists, rows).rows
                 /\ Goto(s, "kpis")
                 /\ UNCHANGED <<msgs, aborted>>
    /\ UNCHANGED <<sqlite_sequence, epoch, issued, role, inp, ops, startEmpty,
                   rendered, outs>>

(* lines 387-393: both KPI queries and the int() conversions, no try *)
KpisStep(s) ==
    /\ pc[s] = "kpis"
    /\ \E fault \in BOOLEAN :
         /\ Fault(s, fault)
         /\ Conn(s, "run_query", fault, ~tableExists)
         /\ IF fault \/ ~tableExists \/ ~KpiRowRenders(load_kpis(rows))
            THEN Uncaught(s)
            ELSE Goto(s, "form") /\ UNCHANGED <<msgs, aborted>>
    /\ UNCHANGED <<store, role, inp, ops, startEmpty, rendered, outs>>

(* lines 402-429: the form and its validation *)
FormStep(s) ==
    /\ pc[s] = "form"
    /\ Render(s, "form")
    /\ IF inp[s].action = "submit"
       THEN IF ValidVehicle(Normalize(inp[s].vehicle))
            THEN Goto(s, "flag") /\ UNCHANGED msgs
            ELSE Goto(s, "lookup") /\ Say(s, {"Provide a valid vehicle number."})
       ELSE Goto(s, "lookup") /\ UNCHANGED msgs
    /\ UNCHANGED <<store, role, inp, aborted, faulted, ops, startEmpty, conns,
                   outs>>

(* lines 433-438: the prior-arrest check, no try *)
FlagStep(s) ==
    /\ pc[s] = "flag"
    /\ ops' = [ops EXCEPT ![s] = @ \cup {"flag_query"}]
    /\ \E fault \in BOOLEAN :
         /\ Fault(s, fault)
         /\ Conn(s, "run_query", fault, ~tableExists)
         /\ IF fault \/ ~tableExists
            THEN Uncaught(s) /\ UNCHANGED arrest_count
            ELSE LET c == flag_query(rows, Normalize(inp[s].vehicle))
                 IN  /\ arrest_count' = [arrest_count EXCEPT ![s] = c]
                     /\ Say(s, {IF c > 0 THEN "AUTOMATED ALERT" ELSE "no prior arrests"})
                     /\ Goto(s, "insert")
                     /\ UNCHANGED aborted
    /\ UNCHANGED <<store, role, inp, startEmpty, rendered,
                   rowid, df_hist, df_results, snap, query_to_run, params>>

(* lines 440-452 with insert_log, lines 61-77 *)
InsertStep(s) ==
    /\ pc[s] = "insert"
    /\ ops' = [ops EXCEPT ![s] = @ \cup {"insert_log"}]
    /\ \E fault \in BOOLEAN :
         /\ Fault(s, fault)
         /\ Conn(s, "insert_log", fault, ~tableExists)
         /\ IF fault \/ ~tableExists
            THEN /\ Say(s, {"Error recording log"})
                 /\ Goto(s, "lookup")
                 /\ UNCHANGED <<rows, sqlite_sequence, issued, rowid>>
            ELSE LET r == SqlInsert(rows, sqlite_sequence, new_log(inp[s]))
                 IN  /\ rows' = r.rows
                     /\ sqlite_sequence' = r.seq
                     /\ rowid' = [rowid EXCEPT ![s] = r.lastrowid]
                     /\ issued' = Append(issued,
                            [id |-> r.lastrowid, epoch |-> epoch, by |-> "form"])
                     /\ Say(s, {"Log recorded successfully"})
                     /\ Goto(s, "refresh")
    /\ UNCHANGED <<tableExists, epoch, role, inp, aborted, startEmpty, rendered,
                   arrest_count, df_hist, df_results, snap,
                   query_to_run, params>>

(* lines 454-457: the KPI refresh shares the insert's try *)
RefreshStep(s) ==
    /\ pc[s] = "refresh"
    /\ \E fault \in BOOLEAN :
         /\ Fault(s, fault)
         /\ Conn(s, "run_query", fault, ~tableExists)
         /\ IF fault \/ ~tableExists
            THEN Say(s, {"Error recording log"})
            ELSE UNCHANGED msgs
    /\ Goto(s, "lookup")
    /\ UNCHANGED <<store, role, inp, aborted, ops, startEmpty, rendered, outs>>

(* lines 464-476: vehicle lookup, no try *)
LookupStep(s) ==
    /\ pc[s] = "lookup"
    /\ Render(s, "lookup")
    /\ IF inp[s].action # "lookup"
       THEN /\ Goto(s, "report")
            /\ UNCHANGED <<msgs, aborted, faulted, conns, df_hist>>
       ELSE IF Normalize(inp[s].vehicle) = NoText
       THEN /\ Say(s, {"Enter a vehicle number."})
            /\ Goto(s, "report")
            /\ UNCHANGED <<aborted, faulted, conns, df_hist>>
       ELSE \E fault \in BOOLEAN :
              /\ Fault(s, fault)
              /\ Conn(s, "run_query", fault, ~tableExists)
              /\ IF fault \/ ~tableExists
                 THEN Uncaught(s) /\ UNCHANGED df_hist
                 ELSE LET h == lookup_query(rows, Normalize(inp[s].vehicle))
                      IN  /\ df_hist' = [df_hist EXCEPT ![s] = h]
                          /\ Say(s, IF h = <<>> THEN {"No records found"} ELSE {})
                          /\ Goto(s, "report")
                          /\ UNCHANGED aborted
    /\ UNCHANGED <<store, role, inp, ops, startEmpty,
                   arrest_count, rowid, df_results, snap,
                   query_to_run, params>>

(* lines 485-524: the analytics panel; the query runs inside a try *)
ReportStep(s) ==
    /\ pc[s] = "report"
    /\ Render(s, "report")
    /\ LET x == InjectFilter(SQL_QUERIES(inp[s].report), inp[s].country_filter)
       IN  /\ query_to_run' = [query_to_run EXCEPT ![s] = x.text]
           /\ params' = [params EXCEPT ![s] = x.params]
           /\ IF inp[s].action # "report"
              THEN UNCHANGED <<msgs, faulted, conns, df_results>>
              ELSE \E fault \in BOOLEAN :
                     /\ Fault(s, fault)
                     /\ Conn(s, "run_query", fault, ~tableExists \/ BindingError(x))
                     /\ IF fault \/ ~tableExists \/ BindingError(x)
                        THEN /\ Say(s, {"Error running query"})
                             /\ UNCHANGED df_results
                        ELSE \E d \in RunReport(rows, x) :
                               /\ df_results' = [df_results EXCEPT ![s] = d]
                               /\ Say(s, IF d = <<>> THEN {"returned no rows"}
                                                     ELSE {"Results"})
    /\ Goto(s, "visuals")
    /\ UNCHANGED <<store, role, inp, aborted, ops, startEmpty,
                   arrest_count, rowid, df_hist, snap>>

(* lines 531-555: two charts, each query in its own try.  Nothing from     *)
(* here on reads query_to_run or params.                                   *)
VisualsStep(s) ==
    /\ pc[s] = "visuals"
    /\ query_to_run' = [query_to_run EXCEPT ![s] = <<>>]
    /\ params' = [params EXCEPT ![s] = <<>>]
    /\ \E f1, f2 \in BOOLEAN :
         /\ Fault(s, f1 \/ f2)
         /\ Conn(s, "run_query", f1 \/ f2, ~tableExists)
         /\ Say(s, (IF f1 \/ ~tableExists THEN {"Hour chart error"} ELSE {})
                   \cup (IF f2 \/ ~tableExists THEN {"Top vehicles chart error"}
                                               ELSE {}))
    /\ Goto(s, "admin")
    /\ UNCHANGED <<store, role, inp, aborted, ops, startEmpty, rendered,
                   arrest_count, rowid, df_hist, df_results, snap>>

(* lines 562-569: admin section; get_table_info is not inside a try *)
AdminStep(s) ==
    /\ pc[s] = "admin"
    /\ IF role[s] # "Admin"
       THEN /\ Goto(s, "done")
            /\ UNCHANGED <<msgs, aborted, faulted, conns, rendered, snap>>
       ELSE \E fault \in BOOLEAN :
              /\ Fault(s, fault)
              /\ Conn(s, "get_table_info", fault, FALSE)
              /\ IF fault
                 THEN Uncaught(s) /\ UNCHANGED <<rendered, snap>>
                 ELSE /\ Render(s, "admin")
                      /\ UNCHANGED <<msgs, aborted>>
                      /\ IF inp[s].action = "recreate"
                         THEN /\ Goto(s, "drop")
                              /\ snap' = [snap EXCEPT ![s] =
                                    <<[tableExists |-> tableExists, rows |-> rows]>>]
                         ELSE Goto(s, "done") /\ UNCHANGED snap
    /\ UNCHANGED <<store, role, inp, ops, startEmpty,
                   arrest_count, rowid, df_hist, df_results,
                   query_to_run, params>>

(* lines 570-574: the handler opens its connection before its try; DROP    *)
(* TABLE IF EXISTS takes effect when it executes.                          *)
DropStep(s) ==
    /\ pc[s] = "drop"
    /\ \E fault \in BOOLEAN, at \in {"connect", "statement"} :
         /\ Fault(s, fault)
         /\ IF fault /\ at = "connect"
            THEN /\ Uncaught(s)
                 /\ UNCHANGED <<tableExists, rows, sqlite_sequence, epoch, conns>>
            ELSE IF fault
            THEN /\ Say(s, {"Error recreating table"})
                 /\ Goto(s, "done")
                 /\ conns' = [conns EXCEPT ![s] = ConnsAfter(@, "recreate", at)]
                 /\ UNCHANGED <<tableExists, rows, sqlite_sequence, epoch, aborted>>
            ELSE /\ tableExists' = FALSE
                 /\ rows' = <<>>
                 /\ sqlite_sequence' = 0
                 /\ epoch' = epoch + 1
                 /\ conns' = [conns EXCEPT ![s] = @ + 1]
                 /\ Goto(s, "reinit")
                 /\ UNCHANGED <<msgs, aborted>>
    /\ UNCHANGED <<issued, role, inp, ops, startEmpty, rendered, outs>>

(* lines 575-580: init_db() after the drop, inside the try; the finally    *)
(* closes the handler's connection.                                        *)
ReinitStep(s) ==
    /\ pc[s] = "reinit"
    /\ \E fault \in BOOLEAN :
         /\ Fault(s, fault)
         /\ \E n \in {ConnsAfter(conns[s], "init_db", at) : at \in FailedAt(fault, FALSE)} :
              conns' = [conns EXCEPT ![s] = n - 1]
         /\ IF fault
            THEN Say(s, {"Error recreating table"}) /\ UNCHANGED <<tableExists, rows>>
            ELSE /\ tableExists' = init_db(tableExists, rows).tableExists
                 /\ rows' = init_db(tableExists, rows).rows
                 /\ Say(s, {"Table recreated"})
    /\ Goto(s, "done")
    /\ UNCHANGED <<sqlite_sequence, epoch, issued, role, inp, aborted, ops,
                   startEmpty, rendered, outs>>

Step(s, I) ==
    \/ StartRun(s, I)
    \/ InitDbStep(s)
    \/ KpisStep(s)
    \/ FormStep(s)
    \/ FlagStep(s)
    \/ InsertStep(s)
    \/ RefreshStep(s)
    \/ LookupStep(s)
    \/ ReportStep(s)
    \/ VisualsStep(s)
    \/ AdminStep(s)
    \/ DropStep(s)
    \/ ReinitStep(s)
    \/ EndRun(s)

(* One operator session *)
Next == Step(Writer, Inputs)

Spec == Init /\ [][Next]_vars

(* Several browser sessions on the same database file *)
ConcInputs ==
    {NoInput, [NoInput EXCEPT !.action = "login", !.role = "Admin"],
     [NoInput EXCEPT !.action = "recreate"],
     [NoInput EXCEPT !.action = "submit", !.vehicle = <<"r", "j", "0", "1">>,
                     !.is_arrested = 1]}

NextConc == \E s \in Sessions : Step(s, ConcInputs)

SpecConc == Init /\ [][NextConc]_vars

----------------------------------------------------------------------------
(* Reporting over a bulk-loaded table *)

NearDrugMin == 49
NearArrestMin == 9
ScenarioStops == 60
ScenarioDrugs == 5

Bulk(n, nd, na, c, vio) ==
    [k \in 1..n |->
        [country_name |-> c, vehicle_number |-> <<"R", "J", "0", "1">>,
         violation |-> vio,
         search_conducted |-> IF k % 3 = 0 THEN 1 ELSE 0,
         search_type |-> IF k % 3 = 0 THEN "Frisk" ELSE "",
         is_arrested |-> IF k > n - na THEN 1 ELSE 0,
         drugs_related_stop |-> IF k <= nd THEN 1 ELSE 0]]

ReportPreloads ==
    { Bulk(ScenarioStops, ScenarioDrugs, 7, "India", "Speeding"),
      Bulk(NearDrugMin, 4, 3, "India", "Speeding")
        \o Bulk(NearArrestMin, 2, 1, "USA", "DUI") }

ReportSubmits ==
    { [NoInput EXCEPT !.action = "submit", !.vehicle = <<"r", "j", "0", "1">>,
                      !.country_name = cv[1], !.violation = cv[2],
                      !.is_arrested = a, !.drugs_related_stop = d] :
        cv \in {<<"India", "Speeding">>, <<"USA", "DUI">>},
        a \in {0, 1}, d \in {0, 1} }

ReportRunInputs ==
    {NoInput, [NoInput EXCEPT !.action = "login", !.role = "Admin"],
     [NoInput EXCEPT !.action = "recreate"]}
    \cup ReportSubmits \cup ReportInputs

InitReport == InitWith(ReportPreloads, {TRUE})

NextReport == Step(Writer, ReportRunInputs)

SpecReport == InitReport /\ [][NextReport]_vars

----------------------------------------------------------------------------
(* Properties *)

FormEntries == {k \in DOMAIN issued : issued[k].by = "form"}

(* C1: identities returned by successive successful insert_log calls with  *)
(* no recreate in between are pairwise distinct, and each is greater than  *)
(* or equal to the one returned before it.                                 *)
C1_IdentityMonotone ==
    \A i, j \in FormEntries :
        (i < j /\ issued[i].epoch = issued[j].epoch)
            => issued[i].id # issued[j].id /\ issued[j].id >= issued[i].id

C1_Witness ==
    \E i, j \in FormEntries :
        i < j /\ issued[i].epoch = issued[j].epoch /\ rowid[Writer] = issued[j].id

ThroughForm(r) ==
    \E k \in FormEntries : issued[k].epoch = epoch /\ issued[k].id = r.stop_id

(* C2: every record persisted through the ingestion form has              *)
(* search_conducted = 0 => search_type = "No Search", whatever search_type *)
(* text was entered.                                                       *)
C2_NoSearchForced ==
    \A k \in DOMAIN rows :
        (ThroughForm(rows[k]) /\ rows[k].search_conducted = 0)
            => rows[k].search_type = "No Search"

C2_Witness ==
    /\ pc[Writer] = "refresh"
    /\ inp[Writer].search_conducted = 0
    /\ inp[Writer].search_type = "Frisk"
    /\ \E k \in DOMAIN rows :
         /\ rows[k].stop_id = rowid[Writer]
         /\ ThroughForm(rows[k])
         /\ rows[k].search_type = "No Search"

(* Length of a text once leading and trailing blanks are removed *)
TrimmedLen(t) ==
    LET lead  == Cardinality({i \in DOMAIN t : \A j \in 1..i : t[j] = " "})
        trail == Cardinality({i \in DOMAIN t : \A j \in i..Len(t) : t[j] = " "})
    IN  IF lead = Len(t) THEN 0 ELSE Len(t) - lead - trail

ShortSubmit(i) == i.action = "submit" /\ TrimmedLen(i.vehicle) < 4

(* C3: a submission whose vehicle number is, after uppercasing and         *)
(* trimming, empty or shorter than 4 characters is rejected with the       *)
(* validation error; neither the prior-arrest query nor the insert runs    *)
(* for it, and the table is unchanged.                                     *)
C3_ShortVehicleRejected ==
    [][\A s \in Sessions :
          ShortSubmit(inp'[s]) =>
            /\ rows' = rows
            /\ pc'[s] \notin {"flag", "insert", "refresh"}
            /\ ops'[s] \cap {"flag_query", "insert_log"} = {}
            /\ arrest_count'[s] = NULL /\ rowid'[s] = NULL
            /\ (pc[s] = "form"
                  => /\ "Provide a valid vehicle number." \in msgs'[s]
                     /\ pc'[s] = "lookup")]_vars

C3_Witness ==
    /\ ShortSubmit(inp[Writer])
    /\ Len(inp[Writer].vehicle) >= 4
    /\ pc[Writer] = "done"
    /\ "Provide a valid vehicle number." \in msgs[Writer]

(* Records for vehicle v flagged arrested, other than the record with      *)
(* identity x                                                              *)
ArrestedBefore(v, x) ==
    Cardinality({k \in DOMAIN rows :
                    /\ rows[k].stop_id # x
                    /\ rows[k].vehicle_number = v
                    /\ rows[k].is_arrested = 1})

(* C4: for every accepted ingestion of a single writer, the prior-arrest   *)
(* advisory count is the number of records already stored for exactly the  *)
(* normalized vehicle number with is_arrested = 1, the record being        *)
(* ingested not counted.                                                   *)
C4_PriorArrestCount ==
    \A s \in Sessions :
        arrest_count[s] # NULL
            => arrest_count[s]
                 = ArrestedBefore(Strip(UpperStr(inp[s].vehicle)), rowid[s])

C4_Witness ==
    /\ pc[Writer] = "done"
    /\ arrest_count[Writer] = 1
    /\ rowid[Writer] # NULL
    /\ inp[Writer].is_arrested = 1
    /\ \E k \in DOMAIN rows :
         /\ ThroughForm(rows[k])
         /\ rows[k].stop_id # rowid[Writer]
         /\ rows[k].vehicle_number = Normalize(inp[Writer].vehicle)
         /\ rows[k].is_arrested = 1

IsPrefix(a, b) == Len(a) <= Len(b) /\ SubSeq(b, 1, Len(a)) = a

(* C9: without a recreate, every record once present stays present with    *)
(* all its fields unchanged, whatever else the page does; rows disappear   *)
(* only through recreate, which removes all of them.                       *)
C9_AppendOnly ==
    [][/\ epoch' = epoch => IsPrefix(rows, rows')
       /\ epoch' # epoch => rows' = <<>>]_vars

C9_Witness ==
    /\ pc[Writer] = "done"
    /\ inp[Writer].action = "lookup"
    /\ df_hist[Writer] # <<>>
    /\ \E k \in DOMAIN rows : ThroughForm(rows[k])
    /\ \E k \in DOMAIN rows : ~ThroughForm(rows[k])

ErrorMessages ==
    {"Uncaught exception", "Error recording log", "Error running query",
     "Hour chart error", "Top vehicles chart error", "Error recreating table"}

(* C5: a page run that starts on an empty, freshly initialized store and   *)
(* meets no store error reaches the analytics panel, and running "Top 10   *)
(* vehicles in drug-related stops" there completes without any error and   *)
(* returns zero rows.                                                      *)
C5_EmptyStoreReport ==
    \A s \in Sessions :
        (pc[s] = "done" /\ startEmpty[s] /\ ~faulted[s])
            => /\ ~aborted[s]
               /\ "report" \in rendered[s]
               /\ msgs[s] \cap ErrorMessages = {}
               /\ (inp[s].action = "report" /\ inp[s].report = TopVehicles)
                     => /\ df_results[s] = <<>>
                        /\ "returned no rows" \in msgs[s]

(* C6: a store error raised by any store operation of the page is caught   *)
(* at that operation and shown as a message, and the page run continues to *)
(* its end.                                                                *)
C6_NoFatalStoreError ==
    \A s \in Sessions :
        (pc[s] = "done" /\ faulted[s])
            => /\ ~aborted[s]
               /\ msgs[s] \cap (ErrorMessages \ {"Uncaught exception"}) # {}

(* C7: a failed insert adds no row, and a failed recreate leaves the table *)
(* present with all its previous rows.                                     *)
C7_FailedOperationKeepsState ==
    [][\A s \in Sessions :
          /\ (pc[s] = "insert" /\ pc'[s] = "lookup")
                => rows' = rows /\ tableExists' = tableExists
          /\ (pc[s] \in {"drop", "reinit"}
                /\ "Error recreating table" \in msgs'[s])
                => tableExists' /\ rows' = snap[s][1].rows]_vars

(* C8: no stop_id value is ever assigned to two different records, also    *)
(* across destructive recreates.                                           *)
C8_IdentityNeverReused ==
    \A i, j \in DOMAIN issued : i # j => issued[i].id # issued[j].id

(* Number of stored records that satisfy P *)
CountWhere(P(_)) == Cardinality({k \in DOMAIN rows : P(rows[k])})

IsPct(p, hits, total) == p.den # 0 /\ p.num * total = 100 * hits * p.den

RateRowOk(name, r) ==
    CASE name = DrugRate ->
           LET InG(x) == x.country_name = r.country_name
               Hit(x) == InG(x) /\ x.drugs_related_stop = 1
           IN  /\ r.total_stops = CountWhere(InG)
               /\ r.drug_stops = CountWhere(Hit)
               /\ IsPct(r.drug_rate_pct, CountWhere(Hit), CountWhere(InG))
               /\ ~(CountWhere(InG) < DrugRateMinGroup)
      [] name = ArrestRate ->
           LET InG(x) == x.country_name = r.country_name /\ x.violation = r.violation
               Hit(x) == InG(x) /\ x.is_arrested = 1
           IN  /\ r.total_stops = CountWhere(InG)
               /\ r.arrests = CountWhere(Hit)
               /\ IsPct(r.arrest_rate_pct, CountWhere(Hit), CountWhere(InG))
               /\ ~(CountWhere(InG) < ArrestRateMinGroup)
      [] name = ViolationAssoc ->
           LET InG(x) == x.violation = r.violation
               HitA(x) == InG(x) /\ x.is_arrested = 1
               HitS(x) == InG(x) /\ x.search_conducted = 1
           IN  /\ r.total_stops = CountWhere(InG)
               /\ r.arrests = CountWhere(HitA)
               /\ r.searches = CountWhere(HitS)
               /\ IsPct(r.arrest_rate_pct, CountWhere(HitA), CountWhere(InG))
               /\ IsPct(r.search_rate_pct, CountWhere(HitS), CountWhere(InG))
               /\ ~(CountWhere(InG) < ViolationMinGroup)
      [] OTHER -> TRUE

(* C10: in the result of every rate report with a minimum group size, each *)
(* group's percentage equals 100 * true_count / total_count of that group  *)
(* in the table, and no group whose total_count is below the report's      *)
(* threshold appears.                                                      *)
C10_RateReports ==
    \A s \in Sessions :
        (inp[s].action = "report" /\ pc[s] \in {"visuals", "admin", "done"})
            => \A i \in DOMAIN df_results[s] :
                  RateRowOk(inp[s].report, df_results[s][i])

C10_Witness ==
    /\ pc[Writer] = "done"
    /\ inp[Writer].action = "report"
    /\ inp[Writer].report = DrugRate
    /\ Len(rows) = ScenarioStops
    /\ \E i \in DOMAIN df_results[Writer] :
         /\ df_results[Writer][i].country_name = "India"
         /\ df_results[Writer][i].drug_stops = ScenarioDrugs
         /\ df_results[Writer][i].total_stops = ScenarioStops
         /\ df_results[Writer][i].drug_rate_pct.num * 3 = 25 * df_results[Writer][i].drug_rate_pct.den

----------------------------------------------------------------------------
(* The analytics panel over the whole catalog: every report selected, with *)
(* and without text in the country filter box; the four reports whose      *)
(* evaluation is modelled are also run.                                    *)

FilterValues == {"", "India", "Nowhere"}

FilterInputs ==
    { [NoInput EXCEPT !.report = n, !.country_filter = c] :
        n \in CatalogNames, c \in FilterValues }
    \cup ReportInputs

NextFilter ==
    \/ StartRun(Writer, FilterInputs)
    \/ InitDbStep(Writer)
    \/ KpisStep(Writer)
    \/ FormStep(Writer)
    \/ LookupStep(Writer)
    \/ ReportStep(Writer)
    \/ VisualsStep(Writer)
    \/ AdminStep(Writer)
    \/ EndRun(Writer)

SpecFilter == Init /\ [][NextFilter]_vars

(* lines 493-501 have just run *)
Built(s) == query_to_run[s] # <<>>

NoCountry(text) == \A i \in DOMAIN text : text[i] # "country_name"

Unfiltered(name) ==
    [query |-> [name |-> name], text |-> QueryText(name), params |-> <<>>]

(* C11: for a report whose text does not contain country_name, whatever    *)
(* is typed in the country filter, and for any report when the filter is   *)
(* empty, the query text handed to the store is the catalog text and no    *)
(* parameter is bound; when the report is run and the store does not       *)
(* fail, no error is shown and the result is a result of the unfiltered    *)
(* query.                                                                  *)
C11_FilterIgnored ==
    \A s \in Sessions :
        (/\ Built(s)
         /\ \/ NoCountry(QueryText(inp[s].report))
            \/ inp[s].country_filter = "")
        => /\ query_to_run[s] = QueryText(inp[s].report)
           /\ params[s] = <<>>
           /\ (inp[s].action = "report" /\ ~faulted[s])
                 => /\ "Error running query" \notin msgs[s]
                    /\ df_results[s] \in RunReport(rows, Unfiltered(inp[s].report))

C11_Witness ==
    /\ Built(Writer)
    /\ inp[Writer].action = "report"
    /\ inp[Writer].report = TopVehicles
    /\ inp[Writer].country_filter = "India"
    /\ df_results[Writer] # <<>>
    /\ query_to_run[Writer] = QueryText(TopVehicles)

FirstWhere(text) ==
    CHOOSE i \in DOMAIN text :
        text[i] = "WHERE" /\ \A j \in 1..(i - 1) : text[j] # "WHERE"

StartsGroupBy(text, i) == i < Len(text) /\ text[i] = "GROUP" /\ text[i + 1] = "BY"

FirstGroupBy(text) ==
    CHOOSE i \in DOMAIN text :
        StartsGroupBy(text, i) /\ \A j \in 1..(i - 1) : ~StartsGroupBy(text, j)

(* The catalog text with country_name = ? conjoined to its first WHERE,    *)
(* or put in a WHERE of its own in front of its first GROUP BY.            *)
WithCountryPredicate(text) ==
    IF \E i \in DOMAIN text : text[i] = "WHERE"
    THEN SubSeq(text, 1, FirstWhere(text))
         \o <<"country_name", "=", "?", "AND">>
         \o SubSeq(text, FirstWhere(text) + 1, Len(text))
    ELSE SubSeq(text, 1, FirstGroupBy(text) - 1)
         \o <<"WHERE", "country_name", "=", "?">>
         \o SubSeq(text, FirstGroupBy(text), Len(text))

(* C12: for a report whose text mentions country_name and a non-empty      *)
(* filter, the query handed to the store is the catalog text with exactly  *)
(* one predicate country_name = ? added (conjoined to the WHERE if there   *)
(* is one, else in front of the first GROUP BY), the one bound parameter   *)
(* is the filter value, and the text has as many "?" as parameters.        *)
C12_FilterInjected ==
    \A s \in Sessions :
        (/\ Built(s)
         /\ ~NoCountry(QueryText(inp[s].report))
         /\ inp[s].country_filter # "")
        => /\ query_to_run[s] = WithCountryPredicate(QueryText(inp[s].report))
           /\ params[s] = <<inp[s].country_filter>>
           /\ Len(SelectSeq(query_to_run[s], LAMBDA k : k = "?")) = Len(params[s])

C12_Witness ==
    /\ Built(Writer)
    /\ inp[Writer].report = "Driver demographics by country"
    /\ inp[Writer].country_filter = "Nowhere"
    /\ params[Writer] = <<"Nowhere">>
    /\ query_to_run[Writer] # QueryText(inp[Writer].report)

----------------------------------------------------------------------------
(* C13: every store operation closes every connection it opened, on every  *)
(* exit path: between operations no connection of the session is open,     *)
(* and while the recreate handler is between its DROP and its init_db()    *)
(* only the handler's own connection is.                                   *)
C13_ConnectionsReleased ==
    \A s \in Sessions : conns[s] = IF pc[s] = "reinit" THEN 1 ELSE 0

----------------------------------------------------------------------------
(* Two sessions recording stops at the same time, nobody recreating the    *)
(* table: the check (run_query) and the insert (insert_log) of a session   *)
(* are two steps, and the other session's steps may fall between them.     *)

RaceInputs ==
    {NoInput,
     [NoInput EXCEPT !.action = "submit", !.vehicle = <<"r", "j", "0", "1">>,
                     !.is_arrested = 1],
     [NoInput EXCEPT !.action = "submit", !.vehicle = <<"m", "h", "1", "2", "x">>,
                     !.is_arrested = 1]}

NextRace ==
    \E s \in Sessions :
        \/ StartRun(s, RaceInputs)
        \/ InitDbStep(s)
        \/ KpisStep(s)
        \/ FormStep(s)
        \/ FlagStep(s)
        \/ InsertStep(s)
        \/ RefreshStep(s)
        \/ LookupStep(s)
        \/ ReportStep(s)
        \/ VisualsStep(s)
        \/ AdminStep(s)
        \/ EndRun(s)

SpecRace == Init /\ [][NextRace]_vars

(* Among the first n records, those for vehicle v flagged arrested *)
VehicleArrests(n, v) ==
    Cardinality({k \in 1..n : rows[k].vehicle_number = v /\ rows[k].is_arrested = 1})

(* Where the record session s has inserted stands in the table *)
OwnPos(s) == CHOOSE k \in DOMAIN rows : rows[k].stop_id = rowid[s]

(* C14: the check and the insert of an ingestion are separate store        *)
(* operations with nothing held between them.  The advisory count of a     *)
(* session is the number of arrested records for the vehicle at some       *)
(* moment before its insert executed (the moment of its check), so it is   *)
(* at most the number present when the insert executes; with two sessions  *)
(* recording the same vehicle it can be strictly smaller (C14_Witness).    *)
C14_AdvisoryIsSnapshot ==
    \A s \in Sessions :
        rowid[s] # NULL
            => /\ {"flag_query", "insert_log"} \subseteq ops[s]
               /\ \E n \in 0..(OwnPos(s) - 1) :
                    arrest_count[s] = VehicleArrests(n, Strip(UpperStr(inp[s].vehicle)))

C14_Witness ==
    \E s \in Sessions :
        /\ rowid[s] # NULL
        /\ arrest_count[s]
              < VehicleArrests(OwnPos(s) - 1, Strip(UpperStr(inp[s].vehicle)))

====
